---- MODULE Spec2Model ----
(***************************************************************************)
(* Model of gaffer's key store and permission evaluation                   *)
(* (src/gaffer/gafferd/keys.py).                                           *)
(*                                                                         *)
(* Conventions.                                                            *)
(*  - A call that raises is recorded in `result.exc` with the name of the  *)
(*    Python exception; "none" means the call returned.                    *)
(*  - The names keys.py uses from the standard library without importing   *)
(*    them (json, os, Lock) are taken as bound; every other name and       *)
(*    attribute is resolved as the source binds it.                        *)
(*  - The state starts with the backend opened on ":memory:" (an empty     *)
(*    `keys` table), an empty cache and an empty recency queue.            *)
(*  - api keys are the integers 1..NumKeys; None (no parent) is 0.         *)
(***************************************************************************)
EXTENDS Integers, Sequences, FiniteSets, TLC

\* ---------------------------------------------------------------- bounds
NumKeys == 3
\* keys.py:200 compares len(self._cache) with 1000; the model scales it down.
CacheCapacity == 2

ApiKeys == 1..NumKeys
None == 0
\* the stored data is opaque to the KeyManager: one JSON text stands for it
Data == {"{}"}

VARIABLES
    keys_table,   \* rows of the sqlite table keys(key, data, parent)
    cache,        \* KeyManager._cache : api key -> key object
    entries,      \* KeyManager._entries : deque of api keys
    events,       \* events the emitter has delivered
    result,       \* the last KeyManager call and how it ended
    key,          \* the Key object permission checks are made on
    call,         \* the last permission check on `key` and its outcome
    threads,      \* where each thread stands inside a KeyManager call
    server        \* Server.get_config(): its input, position and locals

vars == <<keys_table, cache, entries, events, result, key, call, threads, server>>
kmvars == <<keys_table, cache, entries, events, result>>

EmptyCache == [k \in {} |-> None]

\* threads that call into one KeyManager
NumThreads == 2
Threads == 1..NumThreads
Idle == [at |-> "idle", k |-> None, okey |-> None]
NoThreads == [t \in Threads |-> Idle]
MaxEntries == CacheCapacity + 1

\* no get_config() call is under way
NoServer == [at |-> "none"]

SeqToSet(s) == {s[i] : i \in DOMAIN s}

\* deque.remove(x): removes the first occurrence of x
RemoveFirst(s, x) ==
    LET i == CHOOSE i \in DOMAIN s : s[i] = x /\ \A j \in 1..(i-1) : s[j] # x
    IN SubSeq(s, 1, i-1) \o SubSeq(s, i+1, Len(s))

Restrict(f, S) == [x \in S |-> f[x]]

\* ------------------------------------------------------- attribute lookup
\* attributes KeyManager.__init__ binds on the instance
KeyManagerAttrs == {"loop", "cfg", "_cache", "_entries", "_lock", "_backend", "_emitter"}

\* operations of the event emitter (section 4.1 of the design)
EmitterAttrs == {"subscribe", "unsubscribe", "publish", "close"}

\* self._emitter.publlish(event, self, key)
Publlish(ev, event, k) ==
    IF "publlish" \in EmitterAttrs
    THEN [exc |-> "none", events |-> Append(ev, <<event, k>>)]
    ELSE [exc |-> "AttributeError", events |-> ev]

\* ---------------------------------------------------------------- backend
\* SqliteKeyBackend._make_key: the decoded data plus the "key" entry
MakeKey(row) == [key |-> row.key, data |-> row.data]

\* SqliteKeyBackend.get_key
BackendGetKey(t, k) ==
    IF \E r \in t : r.key = k
    THEN [exc |-> "none", value |-> MakeKey(CHOOSE r \in t : r.key = k)]
    ELSE [exc |-> "KeyNotFound", value |-> None]

\* SqliteKeyBackend.has_key
BackendHasKey(t, k) == BackendGetKey(t, k).exc # "KeyNotFound"

\* SqliteKeyBackend.set_key: the primary key rejects a second row for k, and
\* the handler then evaluates the unbound name UserConflict
BackendSetKey(t, k, d, p) ==
    IF \E r \in t : r.key = k
    THEN [exc |-> "NameError", table |-> t]
    ELSE [exc |-> "none", table |-> t \cup {[key |-> k, data |-> d, parent |-> p]}]

\* SqliteKeyBackend.delete_key: DELETE FROM keys WHERE key=?
BackendDeleteKey(t, k) == {r \in t : r.key # k}

\* SELECT key FROM keys where parent=?
SelectChildren(t, k) == {r.key : r \in {x \in t : x.parent = k}}

\* ------------------------------------------------------------ KeyManager
\* KeyManager._delete_entry
DeleteEntry(c, e, k) ==
    IF k \in DOMAIN c
    THEN IF k \in SeqToSet(e)
         THEN [exc |-> "none", cache |-> Restrict(c, DOMAIN c \ {k}),
               entries |-> RemoveFirst(e, k)]
         ELSE [exc |-> "ValueError", cache |-> c, entries |-> e]
    ELSE [exc |-> "none", cache |-> c, entries |-> e]

\* [self._delete_entry(row[0]) for row in rows], rows taken in the order ord
RECURSIVE DeleteEntries(_, _, _)
DeleteEntries(c, e, ord) ==
    IF ord = <<>>
    THEN [exc |-> "none", cache |-> c, entries |-> e]
    ELSE LET d == DeleteEntry(c, e, Head(ord))
         IN IF d.exc # "none" THEN d
            ELSE DeleteEntries(d.cache, d.entries, Tail(ord))

Orders(S) == {s \in [1..Cardinality(S) -> S] : SeqToSet(s) = S}


\* ------------------------------------------------------------ Key objects
\* Strings that permission checks inspect are sequences of characters.
MaxScopeLen == 3
ScopeChars == {"a", "b", "."}
Star == <<"*">>
Strings(n) == UNION {[1..m -> ScopeChars] : m \in 0..n}
Whats == Strings(MaxScopeLen) \cup {Star}

\* "." in what
HasDot(s) == \E i \in DOMAIN s : s[i] = "."

\* what.split(".")[1] instead of [0]: the job part taken for the session
SplitSession_JobPart(s) ==
    IF HasDot(s)
    THEN LET i == CHOOSE i \in DOMAIN s : s[i] = "." /\ \A j \in 1..(i-1) : s[j] # "."
         IN SubSeq(s, i+1, Len(s))
    ELSE s

\* what.split(".")[0]
SplitSession(s) ==
    IF HasDot(s)
    THEN LET i == CHOOSE i \in DOMAIN s : s[i] = "." /\ \A j \in 1..(i-1) : s[j] # "."
         IN SubSeq(s, 1, i-1)
    ELSE s

\* x in s for two str
IsSubstring(x, s) ==
    \E i \in 0..(Len(s) - Len(x)) : SubSeq(s, i+1, i+Len(x)) = x

\* Python values an attribute of a Key can hold
PyList(S) == [type |-> "list", items |-> S]
PyDict(S) == [type |-> "dict", items |-> S]
PyStr(s) == [type |-> "str", chars |-> s]
PyBool(b) == [type |-> "bool", val |-> b]
PyMethod == [type |-> "method"]

\* x in v : membership for list and dict, substring for str, TypeError for
\* the values that are not containers
In(x, v) ==
    CASE v.type \in {"list", "dict"} -> IF x \in v.items THEN "True" ELSE "False"
      [] v.type = "str" -> IF IsSubstring(x, v.chars) THEN "True" ELSE "False"
      [] OTHER -> "TypeError"

\* the spelling of the entries of a permissions mapping
EntryChars(name) ==
    CASE name = "superuser" -> <<"s","u","p","e","r","u","s","e","r">>
      [] name = "manage" -> <<"m","a","n","a","g","e">>
      [] name = "write" -> <<"w","r","i","t","e">>
      [] name = "read" -> <<"r","e","a","d">>

\* permissions.get(name, None) or {}
GetOrEmpty(perms, name) ==
    IF name \in DOMAIN perms /\ perms[name] # {}
    THEN PyList(perms[name])
    ELSE PyDict({})

\* Key.__init__
KeyInit(api_key, label, perms) ==
    LET manage == GetOrEmpty(perms, "manage")
        write == GetOrEmpty(perms, "write")
        read == GetOrEmpty(perms, "write")
    IN [api_key |-> api_key, label |-> label, permissions |-> perms,
        manage |-> manage, write |-> write, read |-> read,
        can_manage_all |-> (Star \in manage.items),
        can_write_all |-> (Star \in write.items),
        can_read_all |-> (Star \in read.items)]

\* methods of Key
KeyMethods == {"__init__", "__str__", "load", "dump", "is_superuser",
               "can_create_key", "can_create_user", "can_manage", "can_write",
               "can_read", "can"}

\* attributes Key.__init__ sets on the instance
KeyFields == {"api_key", "label", "permissions", "manage", "write", "read",
              "can_manage_all", "can_write_all", "can_read_all"}

\* hasattr(self, name)
HasAttr(k, name) == name \in KeyFields \cup KeyMethods

\* getattr(self, name) for a name that hasattr finds
GetAttr(k, name) ==
    CASE name = "api_key" -> PyStr(k.api_key)
      [] name = "label" -> PyStr(k.label)
      [] name = "permissions" -> PyDict({EntryChars(n) : n \in DOMAIN k.permissions})
      [] name = "manage" -> k.manage
      [] name = "write" -> k.write
      [] name = "read" -> k.read
      [] name = "can_manage_all" -> PyBool(k.can_manage_all)
      [] name = "can_write_all" -> PyBool(k.can_write_all)
      [] name = "can_read_all" -> PyBool(k.can_read_all)
      [] OTHER -> PyMethod

\* getattr(self, "%s_all" % permission, False), as a truth value
AllFlag(k, permission) ==
    LET name == permission \o "_all"
    IN IF HasAttr(k, name)
       THEN LET v == GetAttr(k, name) IN IF v.type = "bool" THEN v.val ELSE TRUE
       ELSE FALSE

\* Key.is_superuser
IsSuperuser(k) ==
    IF "superuser" \in DOMAIN k.permissions THEN k.permissions["superuser"] ELSE FALSE

\* Key.can(permission, what)
Can(k, permission, what) ==
    IF ~HasAttr(k, permission) THEN "UnknownPermission"
    ELSE IF AllFlag(k, permission) THEN "True"
    ELSE LET permissions == GetAttr(k, permission)
             session == IF HasDot(what)
                        THEN In(SplitSession(what), permissions)
                        ELSE "False"
         IN IF session \in {"True", "TypeError"} THEN session
            ELSE In(what, permissions)

\* Key.can_manage
CanManage(k, what) == Can(k, "manage", what)

\* can_write without the can_manage test
CanWrite_NoManage(k, what) == Can(k, "write", what)

\* Key.can_write
CanWrite(k, what) ==
    IF CanManage(k, what) = "True" THEN "True" ELSE Can(k, "write", what)

\* Key.can_read
CanRead(k, what) ==
    IF CanWrite(k, what) = "True" THEN "True" ELSE Can(k, "read", what)

\* ---- the Key objects and the calls the permission checks are tried on
GrantSets == {{Star}, {<<"a">>}, {<<"a", ".", "b">>}, {<<"b">>, <<"b", ".", "a">>}}
Grants == UNION {[D -> GrantSets] : D \in SUBSET {"manage", "write", "read"}}
Permissions == Grants \cup {("superuser" :> TRUE) @@ g : g \in Grants}
Labels == {<<>>, <<"a">>}
KeyObjects == {KeyInit(<<"k">>, l, p) : l \in Labels, p \in Permissions}
PermissionNames == {"manage", "write", "read", "label", "api_key", "permissions",
                    "dump", "can_manage", "can_read_all", "execute"}

NoCall == [fn |-> "none"]
Called(fn, permission, what, outcome) ==
    [fn |-> fn, permission |-> permission, what |-> what, outcome |-> outcome]

Ended(op, k, exc, value) == [op |-> op, key |-> k, exc |-> exc, value |-> value]

Init ==
    /\ keys_table = {}
    /\ cache = EmptyCache
    /\ entries = <<>>
    /\ events = <<>>
    /\ result = Ended("open", None, "none", None)
    /\ key = KeyInit(<<"k">>, <<>>, << >>)
    /\ call = NoCall
    /\ threads = NoThreads
    /\ server = NoServer

\* KeyManager.set_key(key, data, parent)
SetKey(k, d, p) ==
    LET b == BackendSetKey(keys_table, k, d, p)
        e == Publlish(events, "set", k)
    IN /\ keys_table' = b.table
       /\ IF b.exc # "none"
          THEN /\ events' = events
               /\ result' = Ended("set_key", k, b.exc, None)
          ELSE /\ events' = e.events
               /\ result' = Ended("set_key", k, e.exc, None)
       /\ UNCHANGED <<cache, entries, key, call, threads, server>>

\* KeyManager.get_key(key)
GetKey(k) ==
    LET b == BackendGetKey(keys_table, k)
    IN IF k \in DOMAIN cache
       THEN /\ result' = Ended("get_key", k, "none", cache[k])
            /\ UNCHANGED <<keys_table, cache, entries, events, key, call, threads, server>>
       ELSE IF b.exc # "none"
       THEN /\ result' = Ended("get_key", k, b.exc, None)
            /\ UNCHANGED <<keys_table, cache, entries, events, key, call, threads, server>>
       ELSE IF Cardinality(DOMAIN cache) >= CacheCapacity
       THEN IF entries = <<>>
            THEN /\ result' = Ended("get_key", k, "IndexError", None)
                 /\ UNCHANGED <<keys_table, cache, entries, events, key, call, threads, server>>
            ELSE \* last = popleft(); then self._cache.pop(key) on the
                 \* key that missed the cache
                 /\ entries' = Tail(entries)
                 /\ result' = Ended("get_key", k, "KeyError", None)
                 /\ UNCHANGED <<keys_table, cache, events, key, call, threads, server>>
       ELSE /\ cache' = (k :> b.value) @@ cache
            /\ entries' = Append(entries, k)
            /\ result' = Ended("get_key", k, "none", b.value)
            /\ UNCHANGED <<keys_table, events, key, call, threads, server>>

\* KeyManager.delete_key(key)
DeleteKey(k) ==
    LET d == DeleteEntry(cache, entries, k)
    IN IF d.exc # "none"
       THEN /\ result' = Ended("delete_key", k, d.exc, None)
            /\ UNCHANGED <<keys_table, cache, entries, events, key, call, threads, server>>
       ELSE IF "conn" \notin KeyManagerAttrs
       THEN \* with self.conn: on the KeyManager
            /\ cache' = d.cache
            /\ entries' = d.entries
            /\ result' = Ended("delete_key", k, "AttributeError", None)
            /\ UNCHANGED <<keys_table, events, key, call, threads, server>>
       ELSE \E ord \in Orders(SelectChildren(keys_table, k)) :
            LET ds == DeleteEntries(d.cache, d.entries, ord)
                e == Publlish(events, "delete", k)
            IN /\ cache' = ds.cache
               /\ entries' = ds.entries
               /\ UNCHANGED <<key, call, threads, server>>
               /\ IF ds.exc # "none"
                  THEN /\ result' = Ended("delete_key", k, ds.exc, None)
                       /\ UNCHANGED <<keys_table, events>>
                  ELSE /\ keys_table' = BackendDeleteKey(keys_table, k)
                       /\ events' = e.events
                       /\ result' = Ended("delete_key", k, e.exc, None)

\* KeyManager.has_key(key)
HasKey(k) ==
    /\ result' = Ended("has_key", k, "none", BackendHasKey(keys_table, k))
    /\ UNCHANGED <<keys_table, cache, entries, events, key, call, threads, server>>

\* KeyManager.close()
Close ==
    LET e == Publlish(events, "close", None)
    IN IF e.exc # "none"
       THEN \* the first statement raises: nothing is closed or cleared
            /\ result' = Ended("close", None, e.exc, None)
            /\ UNCHANGED <<keys_table, cache, entries, events, key, call, threads, server>>
       ELSE \* self._backend.close() drops the ":memory:" database, then the
            \* cache is emptied (the model does not follow a closed manager)
            /\ keys_table' = {}
            /\ cache' = EmptyCache
            /\ entries' = <<>>
            /\ events' = e.events
            /\ result' = Ended("close", None, "none", None)
            /\ UNCHANGED <<key, call, threads, server>>

Next ==
    \/ \E k \in ApiKeys, d \in Data, p \in ApiKeys \cup {None} : SetKey(k, d, p)
    \/ \E k \in ApiKeys : GetKey(k)
    \/ \E k \in ApiKeys : DeleteKey(k)
    \/ \E k \in ApiKeys : HasKey(k)
    \/ Close

Spec == Init /\ [][Next]_vars

\* -------------------------------------------- permission checks on a Key
\* Key.can and its wrappers read the Key and change nothing: each behaviour
\* constructs one Key and makes one check on it.
InitCan ==
    /\ keys_table = {}
    /\ cache = EmptyCache
    /\ entries = <<>>
    /\ events = <<>>
    /\ result = Ended("open", None, "none", None)
    /\ key \in KeyObjects
    /\ call = NoCall
    /\ threads = NoThreads
    /\ server = NoServer

CallCan(permission, what) ==
    /\ call = NoCall
    /\ call' = Called("can", permission, what, Can(key, permission, what))
    /\ UNCHANGED <<kmvars, key, threads, server>>

CallCanManage(what) ==
    /\ call = NoCall
    /\ call' = Called("can_manage", "manage", what, CanManage(key, what))
    /\ UNCHANGED <<kmvars, key, threads, server>>

CallCanWrite(what) ==
    /\ call = NoCall
    /\ call' = Called("can_write", "write", what, CanWrite(key, what))
    /\ UNCHANGED <<kmvars, key, threads, server>>

CallCanRead(what) ==
    /\ call = NoCall
    /\ call' = Called("can_read", "read", what, CanRead(key, what))
    /\ UNCHANGED <<kmvars, key, threads, server>>

NextCan ==
    \/ call = NoCall /\ \E p \in PermissionNames, w \in Whats : CallCan(p, w)
    \/ call = NoCall /\ \E w \in Whats : CallCanManage(w)
    \/ call = NoCall /\ \E w \in Whats : CallCanWrite(w)
    \/ call = NoCall /\ \E w \in Whats : CallCanRead(w)

SpecCan == InitCan /\ [][NextCan]_vars


\* ------------------------------------------------------------- DummyKey
\* DummyKey.__init__: Key.__init__("dummy") with the default label and
\* permissions
DummyKeyInit == KeyInit(<<"d", "u", "m", "m", "y">>, <<>>, << >>)

\* a DummyKey that does not override can: Key.can answers
DummyCan_Inherited(k, permission, what) == Can(k, permission, what)

\* DummyKey.can
DummyCan(k, permission, what) == "True"

\* Key.can_manage on a DummyKey: self.can is DummyKey.can
DummyCanManage(k, what) == DummyCan(k, "manage", what)

\* Key.can_write on a DummyKey
DummyCanWrite(k, what) ==
    IF DummyCanManage(k, what) = "True" THEN "True" ELSE DummyCan(k, "write", what)

\* Key.can_read on a DummyKey
DummyCanRead(k, what) ==
    IF DummyCanWrite(k, what) = "True" THEN "True" ELSE DummyCan(k, "read", what)

\* DummyKey.can_create_key
DummyCanCreateKey(k) == "False"

\* DummyKey.is_superuser
DummyIsSuperuser(k) == "False"

\* DummyKey.can_create_user
DummyCanCreateUser(k) == "False"

InitDummy ==
    /\ keys_table = {}
    /\ cache = EmptyCache
    /\ entries = <<>>
    /\ events = <<>>
    /\ result = Ended("open", None, "none", None)
    /\ key = DummyKeyInit
    /\ call = NoCall
    /\ threads = NoThreads
    /\ server = NoServer

DummyCall(fn, permission, what, outcome) ==
    /\ call = NoCall
    /\ call' = Called(fn, permission, what, outcome)
    /\ UNCHANGED <<kmvars, key, threads, server>>

NextDummy ==
    \/ call = NoCall /\ \E p \in PermissionNames, w \in Whats :
           DummyCall("can", p, w, DummyCan(key, p, w))
    \/ call = NoCall /\ \E w \in Whats :
           DummyCall("can_manage", "manage", w, DummyCanManage(key, w))
    \/ call = NoCall /\ \E w \in Whats :
           DummyCall("can_write", "write", w, DummyCanWrite(key, w))
    \/ call = NoCall /\ \E w \in Whats :
           DummyCall("can_read", "read", w, DummyCanRead(key, w))
    \/ DummyCall("can_create_key", "", <<>>, DummyCanCreateKey(key))
    \/ DummyCall("can_create_user", "", <<>>, DummyCanCreateUser(key))
    \/ DummyCall("is_superuser", "", <<>>, DummyIsSuperuser(key))

SpecDummy == InitDummy /\ [][NextDummy]_vars

\* ------------------------------------------- KeyManager calls, by statement
\* KeyManager.__init__ creates self._lock and no method acquires it: calls
\* made from several threads interleave statement by statement.  `at` names
\* the line of keys.py the thread executes next.
At(t, line) == threads[t].at = line
Goto(t, line) == threads' = [threads EXCEPT ![t].at = line]
Return(t, op, exc, value) ==
    /\ threads' = [threads EXCEPT ![t] = Idle]
    /\ result' = Ended(op, threads[t].k, exc, value)

EnterGetKey(t, k) ==
    /\ At(t, "idle")
    /\ threads' = [threads EXCEPT ![t] = [at |-> "193", k |-> k, okey |-> None]]
    /\ UNCHANGED <<kmvars, key, call, server>>

\* if key in self._cache:
Get193(t) ==
    /\ At(t, "193")
    /\ Goto(t, IF threads[t].k \in DOMAIN cache THEN "194" ELSE "196")
    /\ UNCHANGED <<kmvars, key, call, server>>

\* return self._cache[key]
Get194(t) ==
    /\ At(t, "194")
    /\ IF threads[t].k \in DOMAIN cache
       THEN Return(t, "get_key", "none", cache[threads[t].k])
       ELSE Return(t, "get_key", "KeyError", None)
    /\ UNCHANGED <<keys_table, cache, entries, events, key, call, server>>

\* okey = Key.load(self._backend.get_key(key))
Get196(t) ==
    LET b == BackendGetKey(keys_table, threads[t].k)
    IN /\ At(t, "196")
       /\ IF b.exc # "none"
          THEN Return(t, "get_key", b.exc, None)
          ELSE /\ threads' = [threads EXCEPT ![t].at = "200", ![t].okey = b.value]
               /\ UNCHANGED result
       /\ UNCHANGED <<keys_table, cache, entries, events, key, call, server>>

\* if len(self._cache) >= 1000:
Get200(t) ==
    /\ At(t, "200")
    /\ Goto(t, IF Cardinality(DOMAIN cache) >= CacheCapacity THEN "201" ELSE "205")
    /\ UNCHANGED <<kmvars, key, call, server>>

\* to_remove = self._entries.popleft()
Get201(t) ==
    /\ At(t, "201")
    /\ IF entries = <<>>
       THEN /\ Return(t, "get_key", "IndexError", None)
            /\ UNCHANGED entries
       ELSE /\ entries' = Tail(entries)
            /\ Goto(t, "202")
            /\ UNCHANGED result
    /\ UNCHANGED <<keys_table, cache, events, key, call, server>>

\* self._cache.pop(key)
Get202(t) ==
    /\ At(t, "202")
    /\ IF threads[t].k \in DOMAIN cache
       THEN /\ cache' = Restrict(cache, DOMAIN cache \ {threads[t].k})
            /\ Goto(t, "205")
            /\ UNCHANGED result
       ELSE /\ Return(t, "get_key", "KeyError", None)
            /\ UNCHANGED cache
    /\ UNCHANGED <<keys_table, entries, events, key, call, server>>

\* self._cache[key] = okey
Get205(t) ==
    /\ At(t, "205")
    /\ cache' = (threads[t].k :> threads[t].okey) @@ cache
    /\ Goto(t, "206")
    /\ UNCHANGED <<keys_table, entries, events, result, key, call, server>>

\* self._entries.append(key); return okey.  Racing inserts of one key let
\* _entries grow without limit: the model stops following it at MaxEntries.
Get206(t) ==
    /\ At(t, "206")
    /\ Len(entries) < MaxEntries
    /\ entries' = Append(entries, threads[t].k)
    /\ Return(t, "get_key", "none", threads[t].okey)
    /\ UNCHANGED <<keys_table, cache, events, key, call, server>>

EnterDeleteKey(t, k) ==
    /\ At(t, "idle")
    /\ threads' = [threads EXCEPT ![t] = [at |-> "225", k |-> k, okey |-> None]]
    /\ UNCHANGED <<kmvars, key, call, server>>

\* _delete_entry: if key in self._cache:
Del225(t) ==
    /\ At(t, "225")
    /\ Goto(t, IF threads[t].k \in DOMAIN cache THEN "226" ELSE "212")
    /\ UNCHANGED <<kmvars, key, call, server>>

\* _delete_entry: self._entries.remove(key)
Del226(t) ==
    /\ At(t, "226")
    /\ IF threads[t].k \in SeqToSet(entries)
       THEN /\ entries' = RemoveFirst(entries, threads[t].k)
            /\ Goto(t, "227")
            /\ UNCHANGED result
       ELSE /\ Return(t, "delete_key", "ValueError", None)
            /\ UNCHANGED entries
    /\ UNCHANGED <<keys_table, cache, events, key, call, server>>

\* _delete_entry: self._cache.pop(key)
Del227(t) ==
    /\ At(t, "227")
    /\ IF threads[t].k \in DOMAIN cache
       THEN /\ cache' = Restrict(cache, DOMAIN cache \ {threads[t].k})
            /\ Goto(t, "212")
            /\ UNCHANGED result
       ELSE /\ Return(t, "delete_key", "KeyError", None)
            /\ UNCHANGED cache
    /\ UNCHANGED <<keys_table, entries, events, key, call, server>>

\* with self.conn: and the statements under it, which run as one
\* transaction of the backend
Del212(t) ==
    /\ At(t, "212")
    /\ IF "conn" \notin KeyManagerAttrs
       THEN /\ Return(t, "delete_key", "AttributeError", None)
            /\ UNCHANGED <<keys_table, cache, entries, events>>
       ELSE \E ord \in Orders(SelectChildren(keys_table, threads[t].k)) :
            LET ds == DeleteEntries(cache, entries, ord)
                e == Publlish(events, "delete", threads[t].k)
            IN /\ cache' = ds.cache
               /\ entries' = ds.entries
               /\ IF ds.exc # "none"
                  THEN /\ Return(t, "delete_key", ds.exc, None)
                       /\ UNCHANGED <<keys_table, events>>
                  ELSE /\ keys_table' = BackendDeleteKey(keys_table, threads[t].k)
                       /\ events' = e.events
                       /\ Return(t, "delete_key", e.exc, None)
    /\ UNCHANGED <<key, call, server>>

\* Every thread calls get_key; delete_key calls come from the first thread.
\* set_key is one backend transaction, taken here as one step of a thread
\* that is in no other call.
NextConc ==
    \/ /\ \E t \in Threads : At(t, "idle")
       /\ \E k \in ApiKeys, d \in Data : SetKey(k, d, None)
    \/ \E t \in Threads, k \in ApiKeys : EnterGetKey(t, k)
    \/ \E t \in Threads : Get193(t)
    \/ \E t \in Threads : Get194(t)
    \/ \E t \in Threads : Get196(t)
    \/ \E t \in Threads : Get200(t)
    \/ \E t \in Threads : Get201(t)
    \/ \E t \in Threads : Get202(t)
    \/ \E t \in Threads : Get205(t)
    \/ \E t \in Threads : Get206(t)
    \/ \E k \in ApiKeys : EnterDeleteKey(1, k)
    \/ \E t \in Threads : Del225(t)
    \/ \E t \in Threads : Del226(t)
    \/ \E t \in Threads : Del227(t)
    \/ \E t \in Threads : Del212(t)

SpecConc == Init /\ [][NextConc]_vars


\* ------------------------------------------------------ Server.get_config
\* The parsed configuration is taken as get_config() sees it through cfg:
\* the names listed in http_endpoints and the sections in file order, each
\* with its items.  An item key is a sequence: <<"env:", NAME>> stands for
\* the option "env:NAME".
MaxSections == 2
EndpointNames == {"a", "b"}
ProcessNames == {"p", "q"}
EnvNames == {"A", "B"}
EndpointKeys == {<<"bind">>, <<"backlog">>, <<"certfile">>}
EnvKeys == {<<"env:", n>> : n \in EnvNames}
\* every option of section n is given the value n, but backlog, an integer
ItemVal(k, n) == IF k = <<"backlog">> THEN 64 ELSE n
Items(K, n) == [k \in K |-> ItemVal(k, n)]
EndpointSections ==
    {[kind |-> "endpoint:", name |-> n, items |-> Items(K, n)] :
        n \in EndpointNames, K \in SUBSET EndpointKeys}
ProcessSections ==
    {[kind |-> "process:", name |-> n, items |-> Items(K \cup C, n)] :
        n \in ProcessNames, K \in SUBSET EnvKeys, C \in {{}, {<<"cmd">>}}}
\* section names are unique in a parsed configuration
SectionLists ==
    UNION {{l \in [1..m -> EndpointSections \cup ProcessSections] :
                \A i, j \in 1..m : (l[i].kind = l[j].kind /\ l[i].name = l[j].name) => i = j} :
           m \in 0..MaxSections}
Configs == [http_endpoints : SUBSET EndpointNames, sections : SectionLists]

\* The two dict objects the module-level defaults hold.  dict.copy() copies
\* the references, not the objects: `heap` has the content of each object.
SslRef == "ENDPOINT_DEFAULTS['ssl_options']"
EnvRef == "PROCESS_DEFAULTS['env']"
EmptyDict == [k \in {} |-> None]
ENDPOINT_DEFAULTS == [uri |-> None, backlog |-> 128, ssl_options |-> SslRef]
PROCESS_DEFAULTS ==
    [group |-> None, args |-> None, env |-> EnvRef, uid |-> None, gid |-> None,
     cwd |-> None, detach |-> FALSE, numprocesses |-> 1, start |-> TRUE]
InitialHeap == (SslRef :> EmptyDict) @@ (EnvRef :> EmptyDict)
\* d[k] = v for each k: v of the dict `new`
Update(d, new) == new @@ d

\* cfg.get(section, option, default)
CfgGet(sec, option, default) ==
    IF option \in DOMAIN sec.items THEN sec.items[option] ELSE default

\* the body of `if section.startswith('endpoint:')` for a section named in
\* http_endpoints.  `backlog` rebinds kwargs to an int; whatever the order of
\* the items, a later kwargs[...] raises TypeError.
EndpointSection(sec, heap) ==
    LET keys == DOMAIN sec.items
        ssl == Restrict(sec.items, keys \cap {<<"certfile">>, <<"keyfile">>})
        heap1 == [heap EXCEPT ![SslRef] = Update(heap[SslRef], ssl)]
        kwargs == [ENDPOINT_DEFAULTS EXCEPT
                      !.uri = CfgGet(sec, <<"bind">>, None),
                      !.ssl_options = IF DOMAIN heap1[SslRef] = {} THEN None ELSE SslRef]
    IN IF <<"backlog">> \in keys
       THEN [exc |-> "TypeError", heap |-> heap1, endpoints |-> <<>>]
       ELSE [exc |-> "none", heap |-> heap1,
             \* kwargs.get('uri') is not None: a bind was read
             endpoints |-> IF <<"bind">> \in keys THEN <<kwargs>> ELSE <<>>]

\* params = PROCESS_DEFAULTS.copy()
CopyProcessDefaults(heap) == [params |-> PROCESS_DEFAULTS, heap |-> heap]

\* the body of `elif section.startswith('process:')`
ProcessSection(sec, heap) ==
    LET cmd == CfgGet(sec, <<"cmd">>, "")
        c == CopyProcessDefaults(heap)
        envkeys == {k \in DOMAIN sec.items : k[1] = "env:"}
        env == [n \in {k[2] : k \in envkeys} |-> sec.items[<<"env:", n>>]]
    IN IF cmd = ""
       THEN [heap |-> heap, processes |-> <<>>]
       ELSE [heap |-> [c.heap EXCEPT ![c.params.env] = Update(c.heap[c.params.env], env)],
             processes |-> <<[name |-> sec.name, cmd |-> cmd, params |-> c.params]>>]

TempDir == "<tempdir>"
\* os.path.join(a) on a list a: Python 2 and Python 3 up to 3.5 hand the list
\* back, later versions raise TypeError
OsPathJoin(a) ==
    {[exc |-> "none", value |-> [type |-> "list", items |-> a]],
     [exc |-> "TypeError", value |-> None]}
\* "%s" % value
Str(value) ==
    IF value.type = "list"
    THEN <<"['", value.items[1], "', '", value.items[2], "']">>
    ELSE value.items

Section(i) == server.cfg.sections[i]

InitConfig ==
    /\ keys_table = {}
    /\ cache = EmptyCache
    /\ entries = <<>>
    /\ events = <<>>
    /\ result = Ended("open", None, "none", None)
    /\ key = KeyInit(<<"k">>, <<>>, << >>)
    /\ call = NoCall
    /\ threads = NoThreads
    /\ \E cfg \in Configs :
          server = [at |-> "105", cfg |-> cfg, pos |-> 1, heap |-> InitialHeap,
                    endpoints |-> <<>>, processes |-> <<>>, exc |-> "none"]

\* one turn of `for section in cfg.sections()` on an endpoint section
ReadEndpointSection ==
    /\ server.at = "105"
    /\ server.pos <= Len(server.cfg.sections)
    /\ Section(server.pos).kind = "endpoint:"
    /\ LET e == EndpointSection(Section(server.pos), server.heap)
       IN IF Section(server.pos).name \notin server.cfg.http_endpoints
          THEN server' = [server EXCEPT !.pos = @ + 1]
          ELSE IF e.exc # "none"
          THEN server' = [server EXCEPT !.at = "raised", !.exc = e.exc, !.heap = e.heap]
          ELSE server' = [server EXCEPT !.pos = @ + 1, !.heap = e.heap,
                                        !.endpoints = @ \o e.endpoints]
    /\ UNCHANGED <<kmvars, key, call, threads>>

\* one turn of `for section in cfg.sections()` on a process section
ReadProcessSection ==
    /\ server.at = "105"
    /\ server.pos <= Len(server.cfg.sections)
    /\ Section(server.pos).kind = "process:"
    /\ LET p == ProcessSection(Section(server.pos), server.heap)
       IN server' = [server EXCEPT !.pos = @ + 1, !.heap = p.heap,
                                   !.processes = @ \o p.processes]
    /\ UNCHANGED <<kmvars, key, call, threads>>

\* after the loop: the default endpoint, then return controllers, processes
GetConfigReturn ==
    /\ server.at = "105"
    /\ server.pos > Len(server.cfg.sections)
    /\ IF server.endpoints # <<>>
       THEN server' = [server EXCEPT !.at = "returned"]
       ELSE \E path \in OsPathJoin(<<TempDir, "gaffer.sock">>) :
               IF path.exc # "none"
               THEN server' = [server EXCEPT !.at = "raised", !.exc = path.exc]
               ELSE server' = [server EXCEPT
                                  !.at = "returned",
                                  !.endpoints = <<[uri |-> <<"unix:">> \o Str(path.value)]>>]
    /\ UNCHANGED <<kmvars, key, call, threads>>

NextConfig ==
    \/ ReadEndpointSection
    \/ ReadProcessSection
    \/ GetConfigReturn

SpecConfig == InitConfig /\ [][NextConfig]_vars

TypeOK ==
    /\ DOMAIN cache \subseteq ApiKeys
    /\ SeqToSet(entries) \subseteq ApiKeys

\* ------------------------------------------------------------------ claims
\* the keys whose parent chain in the table t reaches p
RECURSIVE DescendantsUpTo(_, _, _)
DescendantsUpTo(t, S, n) ==
    IF n = 0 THEN S
    ELSE DescendantsUpTo(t, S \cup {r.key : r \in {x \in t : x.parent \in S}}, n - 1)
Descendants(t, p) == DescendantsUpTo(t, SelectChildren(t, p), NumKeys)

\* get_key(k) would raise KeyNotFound in this state
GetKeyRaisesKeyNotFound(k) ==
    k \notin DOMAIN cache /\ BackendGetKey(keys_table, k).exc = "KeyNotFound"

\* C1: once delete_key(k) has been called on a key, has_key(k) is false and
\* get_key(k) raises KeyNotFound, cached or not.
C1_DeletedKeyIsAbsent ==
    result.op = "delete_key" =>
        /\ ~BackendHasKey(keys_table, result.key)
        /\ GetKeyRaisesKeyNotFound(result.key)

\* C2: after delete_key(p), has_key(c) is false for every descendant c of p
\* through the parent pointer.
C2_DeleteCascadesInStore ==
    result.op = "delete_key" =>
        \A c \in Descendants(keys_table, result.key) : ~BackendHasKey(keys_table, c)

\* C3: after delete_key(p), neither p nor any transitive descendant of p is in
\* the cache.
C3_DeleteEvictsSubtree ==
    result.op = "delete_key" =>
        \A c \in {result.key} \cup Descendants(keys_table, result.key) :
            c \notin DOMAIN cache

\* C4: get_key on a persisted, uncached key succeeds and caches it; below
\* capacity the cache grows by that key, and at capacity the earliest-touched
\* key is evicted and the size stays at the capacity.
C4_BoundedCache ==
    [][(/\ result'.op = "get_key"
        /\ result'.key \notin DOMAIN cache
        /\ BackendHasKey(keys_table, result'.key)
        /\ SeqToSet(entries) = DOMAIN cache)
       => /\ result'.exc = "none"
          /\ result'.value.key = result'.key
          /\ IF Cardinality(DOMAIN cache) < CacheCapacity
             THEN DOMAIN cache' = DOMAIN cache \cup {result'.key}
             ELSE /\ DOMAIN cache' = (DOMAIN cache \ {Head(entries)}) \cup {result'.key}
                  /\ Cardinality(DOMAIN cache') = CacheCapacity]_vars

\* C5: a get_key that hits the cache makes that key the most recently used, and
\* a miss on a full cache evicts the least recently used entry.
C5_LeastRecentlyUsed ==
    [][result'.op = "get_key" =>
        /\ (result'.key \in DOMAIN cache =>
                /\ entries' # <<>>
                /\ entries'[Len(entries')] = result'.key)
        /\ (/\ result'.key \notin DOMAIN cache
            /\ BackendHasKey(keys_table, result'.key)
            /\ Cardinality(DOMAIN cache) >= CacheCapacity
            /\ entries # <<>>
            => /\ Head(entries) \notin DOMAIN cache'
               /\ result'.key \in DOMAIN cache')]_vars

\* C6 (as claimed): can('manage', s) implies can('write', s), and
\* can('write', s) implies can('read', s).
C6_CanImplication ==
    call.fn = "can" /\ call.outcome = "True" =>
        /\ call.permission = "manage" => Can(key, "write", call.what) = "True"
        /\ call.permission = "write" => Can(key, "read", call.what) = "True"

\* C6 (amended): can_manage(s) implies can_write(s), and can_write(s) implies
\* can_read(s).
C6_WrapperImplication ==
    /\ call.fn = "can_manage" /\ call.outcome = "True"
         => CanWrite(key, call.what) = "True"
    /\ call.fn = "can_write" /\ call.outcome = "True"
         => CanRead(key, call.what) = "True"

\* a can_manage that is granted on a scope the write set does not cover
C6_Witness ==
    /\ call.fn = "can_manage"
    /\ call.outcome = "True"
    /\ Can(key, "write", call.what) = "False"

\* C7: a Key with superuser=true is granted every permission on every scope.
C7_SuperuserBypass ==
    /\ call.fn = "can"
    /\ call.permission \in {"manage", "write", "read"}
    /\ IsSuperuser(key)
    => call.outcome = "True"

\* the Key's only grant is write on the bare session name S
OnlyWriteOn(S) ==
    /\ DOMAIN key.permissions = {"write"}
    /\ key.permissions["write"] = {S}
    /\ \A i \in DOMAIN S : S[i] # "."

\* w is the scope 'S.j' of some job j of the session S
JobOf(S, w) ==
    /\ Len(w) > Len(S)
    /\ SubSeq(w, 1, Len(S)) = S
    /\ w[Len(S) + 1] = "."

\* w is the scope 'T.j' of some job j of a bare session T other than S
JobOfOther(S, w) ==
    \E i \in DOMAIN w :
        /\ w[i] = "."
        /\ \A j \in 1..(i-1) : w[j] # "."
        /\ SubSeq(w, 1, i-1) # S

\* C8: for a Key whose only grant is write on the bare session S,
\* can_write('S.j') is true, can_manage('S.j') is false, and can_read('T.j') is
\* false for every other session T.
C8_SessionGrant ==
    \A S \in UNION GrantSets : OnlyWriteOn(S) =>
        /\ call.fn = "can_write" /\ JobOf(S, call.what) => call.outcome = "True"
        /\ call.fn = "can_manage" /\ JobOf(S, call.what) => call.outcome = "False"
        /\ call.fn = "can_read" /\ JobOfOther(S, call.what) => call.outcome = "False"

\* write on session a only, and can_write asked for the job a.b
C8_Witness ==
    /\ OnlyWriteOn(<<"a">>)
    /\ call.fn = "can_write"
    /\ call.what = <<"a", ".", "b">>
    /\ call.outcome = "True"

\* the Key's only permissions entry is read, and it grants s or '*'
OnlyReadOn(s) ==
    /\ DOMAIN key.permissions = {"read"}
    /\ (s \in key.permissions["read"] \/ Star \in key.permissions["read"])

\* C9: a Key granted read on s (or on '*') and nothing else can read s and
\* cannot write s.
C9_ReadFromReadEntry ==
    call.fn # "none" /\ OnlyReadOn(call.what) =>
        /\ call.fn = "can_read" => call.outcome = "True"
        /\ call.fn = "can" /\ call.permission = "read" => call.outcome = "True"
        /\ call.fn = "can_write" => call.outcome = "False"

\* C10: can(permission, scope) raises UnknownPermission for every permission
\* name other than manage, write and read.
C10_UnknownPermission ==
    call.fn = "can" /\ call.permission \notin {"manage", "write", "read"}
        => call.outcome = "UnknownPermission"

\* C11: a DummyKey answers true to can(permission, scope) for every permission
\* and scope, and so to can_manage, can_write and can_read, and answers false
\* to can_create_key(), can_create_user() and is_superuser().
C11_DummyKey ==
    /\ call.fn \in {"can", "can_manage", "can_write", "can_read"}
         => call.outcome = "True"
    /\ call.fn \in {"can_create_key", "can_create_user", "is_superuser"}
         => call.outcome = "False"

\* a check the DummyKey grants that Key.can_read refuses on the same object
C11_Witness ==
    /\ call.fn = "can_read"
    /\ call.outcome = "True"
    /\ CanRead(key, call.what) = "False"

\* C12: set_key(k, ...) on a k that is already persisted fails with
\* KeyConflict, leaves the table as it was and publishes no event.
C12_KeyConflict ==
    [][(result'.op = "set_key" /\ BackendHasKey(keys_table, result'.key))
       => /\ result'.exc = "KeyConflict"
          /\ keys_table' = keys_table
          /\ events' = events]_vars

\* C13: every persisted key's parent is absent (None) or a persisted key, and
\* no key is its own ancestor.
C13_ParentsPersisted ==
    \A r \in keys_table :
        /\ r.parent = None \/ BackendHasKey(keys_table, r.parent)
        /\ r.key \notin Descendants(keys_table, r.key)

C17_GetKeyAgreesWithHasKey ==
    [][result'.op = "get_key"
       => (result'.exc = "none" <=> BackendHasKey(keys_table, result'.key))]_vars

\* C18: between KeyManager calls the keys of _cache are the keys of _entries,
\* and no key is in _entries twice.
C18_CacheMatchesEntries ==
    /\ DOMAIN cache = SeqToSet(entries)
    /\ \A i, j \in DOMAIN entries : entries[i] = entries[j] => i = j

C14_AtomicCacheMutation ==
    \A t \in Threads : At(t, "193") => DOMAIN cache = SeqToSet(entries)

\* the configuration has an endpoint section that is named in http_endpoints
\* and has a bind
HasUsableEndpoint(cfg) ==
    \E i \in DOMAIN cfg.sections :
        /\ cfg.sections[i].kind = "endpoint:"
        /\ cfg.sections[i].name \in cfg.http_endpoints
        /\ <<"bind">> \in DOMAIN cfg.sections[i].items

\* C15: on a configuration with no usable endpoint, get_config ends by
\* returning, with exactly one endpoint, on unix:<tempdir>/gaffer.sock.
C15_DefaultEndpoint ==
    (server.at \in {"returned", "raised"} /\ ~HasUsableEndpoint(server.cfg))
    => /\ server.at = "returned"
       /\ server.endpoints = <<[uri |-> <<"unix:", TempDir, "/", "gaffer.sock">>]>>

\* the env:<NAME> items declared in the process section named n
DeclaredEnv(cfg, n) ==
    LET sec == CHOOSE x \in SeqToSet(cfg.sections) : x.kind = "process:" /\ x.name = n
    IN [e \in {k[2] : k \in {x \in DOMAIN sec.items : x[1] = "env:"}} |-> sec.items[<<"env:", e>>]]

====
